---- MODULE Spec2Model ----
(***************************************************************************)
(* Model of trpc::mysql::MysqlExecutor (trpc/client/mysql/mysql_executor.h) *)
(* and of the MysqlResults container.  Each caller thread issues QueryAll   *)
(* and Execute calls against one MysqlExecutor; a call is a sequence of     *)
(* protocol steps (prepare, bind parameters, bind outputs, execute, the     *)
(* fetch loop, statement teardown) and every step is one action.            *)
(***************************************************************************)
EXTENDS Integers, Sequences, FiniteSets, TLC

\* ---------------------------------------------------------------- bounds
Threads == {1, 2}
Executors == {1, 2}
MaxRows == 2
MaxFields == 2

\* ------------------------------------------------------ protocol constants
MYSQL_NO_DATA == 100
MYSQL_DATA_TRUNCATED == 101
FETCH_OK == 0
FETCH_ERROR == 1

VARIABLES
  pc,               \* position of each caller thread inside its call
  exec,             \* the MysqlExecutor the thread's call runs on (0: none yet)
  op,               \* operation the thread is running / ran last
  arity,            \* sizeof...(OutputArgs) of the running QueryAll
  results,          \* MysqlResults::result_set / the results vector
  null_flags,       \* MysqlResults::null_flags / the null_flags vector
  affected_rows,    \* MysqlResults::affected_rows (size_t)
  error_message,    \* MysqlResults::error_message
  stmt,             \* the call's MysqlStatement
  output_buffers,   \* the call's bound output buffers
  null_flag_buffer, \* the call's shared null-flag cells
  status,           \* FetchResults' local status
  ret,              \* value returned by int Execute(...)
  outcome,          \* how the last call ended: none / returned / threw
  hist,             \* per-call record of the protocol steps performed
  mysql_affected,   \* affected-row count held by each executor's mysql_
  mysql_mutex       \* MysqlExecutor::mysql_mutex: 0 = free, else the holder

vars == <<pc, exec, op, arity, results, null_flags, affected_rows, error_message,
          stmt, output_buffers, null_flag_buffer, status, ret, outcome, hist,
          mysql_affected, mysql_mutex>>

\* -------------------------------------------- 64-bit / 32-bit arithmetic
\* A size_t / my_ulonglong is four 16-bit limbs, most significant first.
Limb == 2 ^ 16
HalfLimb == 2 ^ 15
U64(a, b, c, d) == <<a, b, c, d>>
U64Zero == U64(0, 0, 0, 0)
AllOnes == U64(Limb - 1, Limb - 1, Limb - 1, Limb - 1)

\* the counts the protocol is made to report after execute
\* (1, 2^31, 2^32 + 1 and the all-ones value of a failure)
AffectedVals ==
  { U64(0, 0, 0, 1), U64(0, 0, HalfLimb, 0), U64(0, 1, 0, 1), AllOnes }

\* size_t -> int: the low 32 bits, read as two's complement
SizeTToInt(u) ==
  IF u[3] >= HalfLimb THEN (u[3] - Limb) * Limb + u[4]
                      ELSE u[3] * Limb + u[4]

\* int -> size_t: sign extension to 64 bits
IntToSizeT(i) ==
  IF i < 0
    THEN LET j == (i + ((HalfLimb - 1) * Limb + (Limb - 1))) + 1   \* i + 2^31
         IN  U64(Limb - 1, Limb - 1, HalfLimb + (j \div Limb), j % Limb)
    ELSE U64(0, 0, i \div Limb, i % Limb)

\* ------------------------------------------------------------- containers
NoStmt == [live |-> FALSE, field_count |-> 0, rows |-> 0, cursor |-> 0]

\* what one call did, kept until the thread's next call begins
NoHist ==
  [ field_count |-> 0,     \* field count of the prepared statement
    expected  |-> 0,       \* rows the statement produces
    entry_len |-> 0,       \* rows the caller's container held on entry
    bound     |-> FALSE,   \* the parameter-bind step was performed
    bind_rc   |-> 0,       \* result of mysql_stmt_bind_param
    executed  |-> FALSE,   \* the execute step was performed
    fetches   |-> 0,       \* fetch steps performed
    truncated |-> {},      \* rows whose fetch reported truncation
    error_at  |-> -1,      \* rows held when a fetch reported the error
    appended  |-> <<>>,    \* rows appended by this call
    reported  |-> U64Zero, \* count mysql_affected_rows reported
    prepared  |-> 0,       \* statements this call created
    steps     |-> <<>> ]   \* the protocol operations of this call, in order

\* the null-flag vectors a fetch is made to deliver: no column NULL, or one
NullVectors(n) ==
  {[i \in 1..n |-> 0]} \cup {[i \in 1..n |-> IF i = c THEN 1 ELSE 0] : c \in 1..n}

ExecOps == {"Execute", "ExecuteResults"}

\* ------------------------------------------------------------------ Init
\* MysqlResults() : affected_rows(0); the vectors and the string are empty.
Init ==
  /\ pc = [t \in Threads |-> "idle"]
  /\ exec = [t \in Threads |-> 0]
  /\ op = [t \in Threads |-> "none"]
  /\ arity = [t \in Threads |-> 0]
  /\ results = [t \in Threads |-> <<>>]
  /\ null_flags = [t \in Threads |-> <<>>]
  /\ affected_rows = [t \in Threads |-> U64Zero]
  /\ error_message = [t \in Threads |-> ""]
  /\ stmt = [t \in Threads |-> NoStmt]
  /\ output_buffers = [t \in Threads |-> <<>>]
  /\ null_flag_buffer = [t \in Threads |-> <<>>]
  /\ status = [t \in Threads |-> FETCH_OK]
  /\ ret = [t \in Threads |-> 0]
  /\ outcome = [t \in Threads |-> "none"]
  /\ hist = [t \in Threads |-> NoHist]
  /\ mysql_affected = [e \in Executors |-> U64Zero]
  /\ mysql_mutex = 0

\* ---------------------------------------------------------------- helpers
ClearNothing(v) == v

\* results.clear(); null_flags.clear();
Clear(v) == <<>>

\* static std::mutex mysql_mutex: a static data member, so the calls of
\* every executor e are given the one mutex of the class.
MutexOf(e) == "MysqlExecutor::mysql_mutex"

\* The lock a call takes on entry: neither QueryAll nor Execute locks
\* mysql_mutex, so the mutex is left as it is.
LockOnEntry(m, t) == m

AfterBindParamSkip(rc, next) == IF next = "q_bind_out" THEN "q_execute" ELSE next

\* if (mysql_stmt_bind_param(...) != 0) { // handle }  -- the branch is empty,
\* the call goes on whatever the result.
AfterBindParam(rc, next) == next

\* std::tuple<OutputArgs...> row_res; SetResultTuple(row_res, output_binds);
\* a value-initialised tuple of the declared arity, filled from the buffers.
SetResultTuple(n, bufs) ==
  [i \in 1..n |-> IF i <= Len(bufs) THEN bufs[i] ELSE 0]

\* the statuses mysql_stmt_fetch may report at the statement's cursor
FetchStatuses(s) ==
  IF s.cursor < s.rows THEN {FETCH_OK, FETCH_ERROR, MYSQL_DATA_TRUNCATED}
                       ELSE {MYSQL_NO_DATA, FETCH_ERROR}

LoopBreaksAlways(st) == TRUE

\* if (status == 1 || status == MYSQL_NO_DATA) break;
LoopBreaks(st) == st = FETCH_ERROR \/ st = MYSQL_NO_DATA

\* rows kept as views of the shared output buffers instead of copies
PushRowAliased(rs, st, row) ==
  IF st = MYSQL_DATA_TRUNCATED THEN [r \in 1..Len(rs) |-> row]
                               ELSE [r \in 1..(Len(rs) + 1) |-> row]

\* results.push_back(std::move(row_res)) in the else branch of the
\* truncation test
PushRow(rs, st, row) ==
  IF st = MYSQL_DATA_TRUNCATED THEN rs ELSE Append(rs, row)

PushFlagsAlways(nf, st, buf) == Append(nf, buf)

\* null_flags.emplace_back(null_flag_buffer) in the same else branch
PushFlags(nf, st, buf) ==
  IF st = MYSQL_DATA_TRUNCATED THEN nf ELSE Append(nf, buf)

\* if (status == 1) { std::runtime_error(...); }  -- the exception object is
\* built and dropped, nothing is thrown: FetchResults returns.
AfterLoop(st) == "returned"

\* MysqlStatement::~MysqlStatement at the end of stmt's scope:
\* StatementHandle.Close() releases the server-side handle.
DestroyStatement(s) == NoStmt

ReportErrorStored(msg, st) == IF st = FETCH_ERROR THEN "fetch error" ELSE msg

\* if (status == 1) { std::runtime_error(mysql_stmt_error(...)); }  -- the
\* error text goes into the dropped temporary; error_message is not written.
ReportError(msg, st) == msg

\* ---------------------------------------------------------------- QueryAll
\* results.clear(); null_flags.clear(); MysqlStatement stmt(query, mysql_);
\* BindInputArgs(input_binds, args...);
QueryAll_Begin(t, e, F, N, A) ==
  /\ pc[t] = "idle"
  /\ exec' = [exec EXCEPT ![t] = e]
  /\ pc' = [pc EXCEPT ![t] = "q_bind_param"]
  /\ op' = [op EXCEPT ![t] = "QueryAll"]
  /\ arity' = [arity EXCEPT ![t] = A]
  /\ results' = [results EXCEPT ![t] = Clear(@)]
  /\ null_flags' = [null_flags EXCEPT ![t] = Clear(@)]
  /\ stmt' = [stmt EXCEPT ![t] =
                [live |-> TRUE, field_count |-> F, rows |-> N, cursor |-> 0]]
  /\ hist' = [hist EXCEPT ![t] =
                [NoHist EXCEPT !.field_count = F, !.expected = N,
                               !.entry_len = Len(results[t]),
                               !.prepared = 1, !.steps = <<"prepare">>]]
  /\ outcome' = [outcome EXCEPT ![t] = "none"]
  /\ status' = [status EXCEPT ![t] = FETCH_OK]
  /\ ret' = [ret EXCEPT ![t] = 0]
  /\ mysql_mutex' = LockOnEntry(mysql_mutex, t)
  /\ UNCHANGED <<affected_rows, error_message, output_buffers,
                 null_flag_buffer, mysql_affected>>

\* mysql_stmt_bind_param(stmt.STMTPointer(), input_binds.data())
QueryAll_BindParam(t, rc) ==
  /\ pc[t] = "q_bind_param"
  /\ pc' = [pc EXCEPT ![t] = AfterBindParam(rc, "q_bind_out")]
  /\ hist' = [hist EXCEPT ![t].bound = TRUE, ![t].bind_rc = rc,
                          ![t].steps = Append(@, "bind_param")]
  /\ UNCHANGED <<exec, op, arity, results, null_flags, affected_rows, error_message,
                 stmt, output_buffers, null_flag_buffer, status, ret, outcome,
                 mysql_affected, mysql_mutex>>

\* the four vectors of GetFieldCount() cells, BindOutputs, the length cells
QueryAll_BindOutputs(t) ==
  /\ pc[t] = "q_bind_out"
  /\ pc' = [pc EXCEPT ![t] = "q_execute"]
  /\ output_buffers' = [output_buffers EXCEPT ![t] =
                          [i \in 1..stmt[t].field_count |-> 0]]
  /\ null_flag_buffer' = [null_flag_buffer EXCEPT ![t] =
                            [i \in 1..stmt[t].field_count |-> 0]]
  /\ hist' = [hist EXCEPT ![t].steps = Append(@, "bind_output")]
  /\ UNCHANGED <<exec, op, arity, results, null_flags, affected_rows, error_message,
                 stmt, status, ret, outcome, mysql_affected, mysql_mutex>>

UnwindLeak(t) ==
  /\ pc' = [pc EXCEPT ![t] = "idle"]
  /\ stmt' = stmt
  /\ output_buffers' = [output_buffers EXCEPT ![t] = <<>>]
  /\ null_flag_buffer' = [null_flag_buffer EXCEPT ![t] = <<>>]
  /\ outcome' = [outcome EXCEPT ![t] = "threw"]

\* an exception leaves the call: stmt and the vectors are locals of the call,
\* destroyed while unwinding
Unwind(t) ==
  /\ pc' = [pc EXCEPT ![t] = "idle"]
  /\ stmt' = [stmt EXCEPT ![t] = DestroyStatement(@)]
  /\ output_buffers' = [output_buffers EXCEPT ![t] = <<>>]
  /\ null_flag_buffer' = [null_flag_buffer EXCEPT ![t] = <<>>]
  /\ outcome' = [outcome EXCEPT ![t] = "threw"]

\* StatementHandle.Execute() -> ok | ExecError
ExecOutcomes == BOOLEAN

\* ExecuteStatement(output_binds, stmt): binds the outputs and executes;
\* a rejected execution is raised to the caller.
QueryAll_ExecuteStatement(t, ok) ==
  /\ pc[t] = "q_execute"
  /\ hist' = [hist EXCEPT ![t].executed = TRUE,
        ![t].steps = IF ok THEN Append(@, "execute")
                           ELSE @ \o <<"execute", "teardown">>]
  /\ mysql_affected' = [mysql_affected EXCEPT ![exec[t]] = AllOnes]
  /\ IF ok
       THEN /\ pc' = [pc EXCEPT ![t] = "q_fetch"]
            /\ UNCHANGED <<stmt, output_buffers, null_flag_buffer, outcome>>
       ELSE Unwind(t)
  /\ UNCHANGED <<exec, op, arity, results, null_flags, affected_rows, error_message,
                 status, ret, mysql_mutex>>

\* one iteration of the while (true) loop of FetchResults
FetchResults_Iterate(t, st, nulls) ==
  /\ pc[t] = "q_fetch"
  /\ st \in FetchStatuses(stmt[t])
  /\ status' = [status EXCEPT ![t] = st]
  /\ IF LoopBreaks(st)
       THEN /\ pc' = [pc EXCEPT ![t] = "q_after_loop"]
            /\ hist' = [hist EXCEPT
                 ![t].fetches = @ + 1,
                 ![t].steps = Append(@, "fetch"),
                 ![t].error_at = IF st = FETCH_ERROR THEN Len(results[t]) ELSE @]
            /\ UNCHANGED <<results, null_flags, stmt, output_buffers,
                           null_flag_buffer>>
       ELSE LET k   == stmt[t].cursor + 1
                buf == [i \in 1..stmt[t].field_count |-> k]
                \* src and nulls record which fetch the row came from
                row == [tuple |-> SetResultTuple(arity[t], buf),
                        src |-> k, nulls |-> nulls]
            IN  /\ pc' = pc
                /\ stmt' = [stmt EXCEPT ![t].cursor = k]
                \* mysql_stmt_fetch fills the bound buffers with row k
                /\ output_buffers' = [output_buffers EXCEPT ![t] = buf]
                /\ null_flag_buffer' = [null_flag_buffer EXCEPT ![t] = nulls]
                /\ results' = [results EXCEPT ![t] = PushRow(@, st, row)]
                /\ null_flags' = [null_flags EXCEPT ![t] =
                                    PushFlags(@, st, null_flag_buffer'[t])]
                /\ hist' = [hist EXCEPT
                     ![t].fetches = @ + 1,
                     ![t].steps = Append(@, "fetch"),
                     ![t].truncated =
                        IF st = MYSQL_DATA_TRUNCATED THEN @ \cup {k} ELSE @,
                     ![t].appended =
                        IF st = MYSQL_DATA_TRUNCATED THEN @ ELSE Append(@, row)]
  /\ UNCHANGED <<exec, op, arity, affected_rows, error_message, ret, outcome,
                 mysql_affected, mysql_mutex>>

\* the code after the loop, the return of FetchResults and of QueryAll, and
\* the destruction of stmt and of the call's buffers
FetchResults_Exit(t) ==
  /\ pc[t] = "q_after_loop"
  /\ pc' = [pc EXCEPT ![t] = "idle"]
  /\ outcome' = [outcome EXCEPT ![t] = AfterLoop(status[t])]
  /\ stmt' = [stmt EXCEPT ![t] = DestroyStatement(@)]
  /\ output_buffers' = [output_buffers EXCEPT ![t] = <<>>]
  /\ null_flag_buffer' = [null_flag_buffer EXCEPT ![t] = <<>>]
  /\ hist' = [hist EXCEPT ![t].steps = Append(@, "teardown")]
  /\ error_message' = [error_message EXCEPT ![t] = ReportError(@, status[t])]
  /\ UNCHANGED <<exec, op, arity, results, null_flags, affected_rows,
                 status, ret, mysql_affected, mysql_mutex>>

\* ----------------------------------------------------------------- Execute
\* MysqlStatement stmt(query, mysql_); BindInputArgs(input_binds, args...);
\* o is the overload: int Execute(...) or Execute(MysqlResults<OnlyExec>&, ...)
Execute_Begin(t, e, o) ==
  /\ pc[t] = "idle"
  /\ exec' = [exec EXCEPT ![t] = e]
  /\ pc' = [pc EXCEPT ![t] = "e_bind_param"]
  /\ op' = [op EXCEPT ![t] = o]
  /\ stmt' = [stmt EXCEPT ![t] =
                [live |-> TRUE, field_count |-> 0, rows |-> 0, cursor |-> 0]]
  /\ hist' = [hist EXCEPT ![t] =
                [NoHist EXCEPT !.entry_len = Len(results[t]),
                               !.prepared = 1, !.steps = <<"prepare">>]]
  /\ outcome' = [outcome EXCEPT ![t] = "none"]
  /\ arity' = [arity EXCEPT ![t] = 0]
  /\ status' = [status EXCEPT ![t] = FETCH_OK]
  /\ ret' = [ret EXCEPT ![t] = 0]
  /\ mysql_mutex' = LockOnEntry(mysql_mutex, t)
  /\ UNCHANGED <<results, null_flags, affected_rows, error_message,
                 output_buffers, null_flag_buffer, mysql_affected>>

Execute_BindParam(t, rc) ==
  /\ pc[t] = "e_bind_param"
  /\ pc' = [pc EXCEPT ![t] = AfterBindParam(rc, "e_execute")]
  /\ hist' = [hist EXCEPT ![t].bound = TRUE, ![t].bind_rc = rc,
                          ![t].steps = Append(@, "bind_param")]
  /\ UNCHANGED <<exec, op, arity, results, null_flags, affected_rows, error_message,
                 stmt, output_buffers, null_flag_buffer, status, ret, outcome,
                 mysql_affected, mysql_mutex>>

\* ExecuteStatement(stmt): the connection then holds the count n
Execute_ExecuteStatement(t, ok, n) ==
  /\ pc[t] = "e_execute"
  /\ hist' = [hist EXCEPT ![t].executed = TRUE,
        ![t].steps = IF ok THEN Append(@, "execute")
                           ELSE @ \o <<"execute", "teardown">>]
  /\ IF ok
       THEN /\ mysql_affected' = [mysql_affected EXCEPT ![exec[t]] = n]
            /\ pc' = [pc EXCEPT ![t] = "e_affected"]
            /\ UNCHANGED <<stmt, output_buffers, null_flag_buffer, outcome>>
       ELSE /\ mysql_affected' = [mysql_affected EXCEPT ![exec[t]] = AllOnes]
            /\ Unwind(t)
  /\ UNCHANGED <<exec, op, arity, results, null_flags, affected_rows, error_message,
                 status, ret, mysql_mutex>>

\* size_t affected_row = mysql_affected_rows(mysql_); return affected_row;
\* and, in the MysqlResults overload, mysql_results.affected_rows = Execute(...)
Execute_Return(t) ==
  /\ pc[t] = "e_affected"
  /\ LET affected_row == mysql_affected[exec[t]]
         r == SizeTToInt(affected_row)
     IN  /\ ret' = [ret EXCEPT ![t] = r]
         /\ affected_rows' = [affected_rows EXCEPT ![t] =
               IF op[t] = "ExecuteResults" THEN IntToSizeT(r) ELSE @]
         /\ hist' = [hist EXCEPT ![t].reported = affected_row,
               ![t].steps = @ \o <<"affected_rows", "teardown">>]
  /\ pc' = [pc EXCEPT ![t] = "idle"]
  /\ outcome' = [outcome EXCEPT ![t] = "returned"]
  /\ stmt' = [stmt EXCEPT ![t] = DestroyStatement(@)]
  /\ UNCHANGED <<exec, op, arity, results, null_flags, error_message, output_buffers,
                 null_flag_buffer, status, mysql_affected, mysql_mutex>>

\* ------------------------------------------------------------ composition
\* the steps by which a call that thread t has begun goes on
Proceed(t, AV) ==
  \/ \E rc \in {0, 1} : QueryAll_BindParam(t, rc)
  \/ QueryAll_BindOutputs(t)
  \/ \E ok \in ExecOutcomes : QueryAll_ExecuteStatement(t, ok)
  \/ \E st \in {FETCH_OK, FETCH_ERROR, MYSQL_NO_DATA, MYSQL_DATA_TRUNCATED},
        nulls \in NullVectors(stmt[t].field_count) :
          FetchResults_Iterate(t, st, nulls)
  \/ FetchResults_Exit(t)
  \/ \E rc \in {0, 1} : Execute_BindParam(t, rc)
  \/ \E ok \in ExecOutcomes, n \in AV : Execute_ExecuteStatement(t, ok, n)
  \/ Execute_Return(t)

\* the steps of thread t on the executors E, its inputs drawn from fields
\* 1..MF, rows 0..MR and affected-row counts AV
Step(t, E, MF, MR, AV) ==
  \/ \E e \in E, F \in 1..MF, N \in 0..MR, A \in 1..MF :
        QueryAll_Begin(t, e, F, N, A)
  \/ \E e \in E, o \in ExecOps : Execute_Begin(t, e, o)
  \/ Proceed(t, AV)

\* The class is documented as not thread-safe: one thread uses the executor.
Callers == {1}
Next == \E t \in Callers : Step(t, {1}, MaxFields, MaxRows, AffectedVals)
Spec == Init /\ [][Next]_vars

\* A call runs synchronously on its caller's thread: once begun it keeps
\* taking its next step.
LiveAffected == {U64(0, 0, 0, 1)}
NextLive == \E t \in Callers : Step(t, {1}, MaxFields, MaxRows, LiveAffected)
SpecLive ==
  Init /\ [][NextLive]_vars /\ \A t \in Callers : WF_vars(Proceed(t, LiveAffected))

\* Two threads call into the same executor with nothing else ordering them.
ConcFields == 1
ConcRows == 1
ConcAffected == {U64(0, 0, 0, 1), AllOnes}
NextConc == \E t \in Threads : Step(t, {1}, ConcFields, ConcRows, ConcAffected)
SpecConc == Init /\ [][NextConc]_vars

\* Two threads, each calling into an executor (a connection) of its own.
NextConns == \E t \in Threads : Step(t, {t}, ConcFields, ConcRows, ConcAffected)
SpecConns == Init /\ [][NextConns]_vars

\* ------------------------------------------------------------------ claims
Returned(t) == pc[t] = "idle" /\ outcome[t] = "returned"
QueryReturned(t) == Returned(t) /\ op[t] = "QueryAll"
InCall(t) == pc[t] # "idle"
Rows(t) == 1..Len(results[t])

\* C1: a QueryAll whose statement produces N rows returns exactly N rows,
\* whatever the fetch statuses were, and every per-row null-flag sequence is
\* as long as the list of declared output types.
C1_ExactlyNRows ==
  \A t \in Threads :
    QueryReturned(t) =>
      /\ Len(results[t]) = hist[t].expected
      /\ \A r \in 1..Len(null_flags[t]) : Len(null_flags[t][r]) = arity[t]

\* C2: calls of two threads on the same executor are serialized: while one
\* thread is between its prepare and its statement teardown, no other thread
\* is inside a call (no step of a second call falls in between).
C2_Serialized ==
  \A t, u \in Threads : (t # u /\ InCall(t)) => ~InCall(u)

\* C3: after a failed parameter bind (non-zero result) the call is aborted:
\* no execute step and no fetch step follows.
C3_BindFailureAborts ==
  \A t \in Threads :
    (hist[t].bound /\ hist[t].bind_rc # 0) =>
      ~hist[t].executed /\ hist[t].fetches = 0

\* C4: a QueryAll whose declared output arity differs from the statement's
\* field count fails before any fetch step: no fetch, no row, no normal return.
C4_ArityMismatchFails ==
  \A t \in Threads :
    (op[t] = "QueryAll" /\ arity[t] # hist[t].field_count) =>
      /\ hist[t].fetches = 0
      /\ results[t] = <<>>
      /\ outcome[t] # "returned"

\* C5: once a fetch step reported the error status the loop has stopped and
\* QueryAll does not return normally.
C5_FetchErrorRaised ==
  \A t \in Threads :
    (op[t] = "QueryAll" /\ hist[t].error_at >= 0) =>
      pc[t] # "q_fetch" /\ outcome[t] # "returned"

\* C6: a QueryAll that returns normally holds every row whose fetch reported
\* truncation (re-fetched in full); otherwise it failed with an error.
C6_TruncationNotSilent ==
  \A t \in Threads :
    QueryReturned(t) =>
      \A k \in hist[t].truncated : \E r \in Rows(t) : results[t][r].src = k

\* C7: at every point between loop iterations and after every call, rows and
\* flag sequences have the same length, the flags at index r are those the
\* fetch of row r delivered, and rows appear in fetch order.
C7_FlagsAligned ==
  \A t \in Threads :
    /\ Len(results[t]) = Len(null_flags[t])
    /\ \A r \in Rows(t) : null_flags[t][r] = results[t][r].nulls
    /\ \A r \in Rows(t) : r > 1 => results[t][r - 1].src < results[t][r].src

\* C7 witness: inside the fetch loop of a call whose containers held rows on
\* entry, two rows appended with different flags
C7_Witness ==
  \E t \in Threads :
    /\ pc[t] = "q_fetch"
    /\ Len(results[t]) = 2
    /\ null_flags[t][1] # null_flags[t][2]
    /\ hist[t].entry_len > 0

\* C8: the containers of a QueryAll call hold exactly the rows appended by
\* that call, whatever they held on entry; a statement without rows leaves
\* both empty.
C8_OnlyThisCall ==
  \A t \in Threads :
    op[t] = "QueryAll" =>
      /\ results[t] = hist[t].appended
      /\ Len(null_flags[t]) = Len(hist[t].appended)
      /\ (Returned(t) /\ hist[t].expected = 0) =>
            results[t] = <<>> /\ null_flags[t] = <<>>

\* C8 witness: a zero-row query returned to a caller whose containers held
\* rows on entry
C8_Witness ==
  \E t \in Threads :
    /\ QueryReturned(t)
    /\ hist[t].entry_len > 0
    /\ hist[t].expected = 0
    /\ results[t] = <<>>
    /\ null_flags[t] = <<>>

\* C9: Execute returns a non-negative integer equal to the count the protocol
\* reported, and the MysqlResults overload stores that count.
C9_AffectedRowsExact ==
  \A t \in Threads :
    (Returned(t) /\ op[t] \in ExecOps) =>
      /\ ret[t] >= 0
      /\ U64(0, 0, ret[t] \div Limb, ret[t] % Limb) = hist[t].reported
      /\ op[t] = "ExecuteResults" => affected_rows[t] = hist[t].reported

\* C10: after a fetch error that followed at least one appended row, the
\* result the caller sees is empty or marked as partial.
C10_PartialDiscardedOrMarked ==
  \A t \in Threads :
    (op[t] = "QueryAll" /\ pc[t] = "idle" /\ hist[t].error_at >= 1) =>
      results[t] = <<>> \/ error_message[t] # ""

QueryOrder == <<"prepare", "bind_param", "bind_output", "execute">>
ExecuteOrder == <<"prepare", "bind_param", "execute", "affected_rows", "teardown">>
ExecuteThrowOrder == <<"prepare", "bind_param", "execute", "teardown">>
IsPrefix(a, b) == Len(a) <= Len(b) /\ \A i \in 1..Len(a) : a[i] = b[i]

C13_FixedOrder ==
  \A t \in Threads :
    LET s == hist[t].steps IN
    /\ op[t] = "QueryAll" =>
         /\ \A i \in 1..Len(s) :
              /\ i <= Len(QueryOrder) => s[i] = QueryOrder[i]
              /\ i > Len(QueryOrder) => s[i] \in {"fetch", "teardown"}
              /\ s[i] = "teardown" => i = Len(s)
         /\ (pc[t] = "idle") <=> (Len(s) > 0 /\ s[Len(s)] = "teardown")
         /\ Cardinality({i \in 1..Len(s) : s[i] = "fetch"}) = hist[t].fetches
    /\ op[t] \in ExecOps =>
         /\ IsPrefix(s, ExecuteOrder) \/ s = ExecuteThrowOrder
         /\ (pc[t] = "idle") <=> (Len(s) > 0 /\ s[Len(s)] = "teardown")
         /\ hist[t].fetches = 0

\* C13 witness: a QueryAll that went through three fetch steps and returned,
\* on a thread that had run an Execute to its return before
C13_Witness ==
  \E t \in Threads :
    /\ QueryReturned(t)
    /\ hist[t].steps = QueryOrder \o <<"fetch", "fetch", "fetch", "teardown">>
    /\ affected_rows[t] # U64Zero

\* C14: the fetch loop stops at the first end-of-data or error status and
\* fetches no more; after any other status it fetches again; every QueryAll
\* that reached the loop returns; an end-of-data stop is a normal return with
\* the rows collected so far.
LoopStops(t) ==
  /\ (status[t] = FETCH_ERROR \/ status[t] = MYSQL_NO_DATA) =>
        /\ pc[t] \in {"q_after_loop", "idle"}
        /\ hist[t].fetches =
             Len(hist[t].appended) + Cardinality(hist[t].truncated) + 1
  /\ (hist[t].fetches > 0 /\ status[t] \in {FETCH_OK, MYSQL_DATA_TRUNCATED}) =>
        pc[t] = "q_fetch"
  /\ (pc[t] = "idle" /\ status[t] = MYSQL_NO_DATA) =>
        /\ outcome[t] = "returned"
        /\ results[t] = hist[t].appended

C14_LoopTerminates ==
  /\ [](\A t \in Threads : op[t] = "QueryAll" => LoopStops(t))
  /\ \A t \in Callers : (pc[t] = "q_fetch") ~> (pc[t] = "idle")

\* C14 witness: a QueryAll returned after end-of-data that followed an
\* appended row and a truncated one
C14_Witness ==
  \E t \in Threads :
    /\ QueryReturned(t)
    /\ status[t] = MYSQL_NO_DATA
    /\ hist[t].fetches = 3
    /\ Len(results[t]) = 1
    /\ hist[t].truncated # {}

\* C15: a fetch step, which overwrites the shared output buffers and null-flag
\* cells, leaves every row and every flag sequence already appended as it was:
\* the containers only grow at the end.
C15_SnapshotKept ==
  [][\A t \in Threads :
       pc[t] = "q_fetch" =>
         /\ Len(results'[t]) >= Len(results[t])
         /\ Len(null_flags'[t]) >= Len(null_flags[t])
         /\ \A r \in 1..Len(results[t]) : results'[t][r] = results[t][r]
         /\ \A r \in 1..Len(null_flags[t]) : null_flags'[t][r] = null_flags[t][r]
    ]_vars

\* C15 witness: inside the loop, an appended row whose values and flags
\* differ from what a later fetch has since written into the shared buffers
C15_Witness ==
  \E t \in Threads :
    /\ pc[t] = "q_fetch"
    /\ Len(results[t]) = 1
    /\ hist[t].fetches = 2
    /\ results[t][1].tuple[1] # output_buffers[t][1]
    /\ null_flags[t][1] # null_flag_buffer[t]

\* C16: every step of a QueryAll leaves affected_rows and error_message as
\* they were, every step of Execute(MysqlResults<OnlyExec>&) leaves
\* result_set, null_flags and error_message as they were, and error_message
\* is empty at all times, whatever failed.
C16_Frame ==
  /\ [](\A t \in Threads : error_message[t] = "")
  /\ [][\A t \in Threads :
          /\ op'[t] = "QueryAll" =>
               /\ affected_rows'[t] = affected_rows[t]
               /\ error_message'[t] = error_message[t]
          /\ op'[t] = "ExecuteResults" =>
               /\ results'[t] = results[t]
               /\ null_flags'[t] = null_flags[t]
               /\ error_message'[t] = error_message[t]
     ]_vars

\* C16 witness: a QueryAll with a failed bind, a truncated fetch and a fetch
\* error has returned, after an Execute had stored a count
C16_Witness ==
  \E t \in Threads :
    /\ QueryReturned(t)
    /\ hist[t].bind_rc # 0
    /\ hist[t].truncated # {}
    /\ hist[t].error_at >= 0
    /\ affected_rows[t] # U64Zero
    /\ error_message[t] = ""

====
